---- MODULE Spec2Model ----
(***************************************************************************)
(* Model of the multiflow tunnelling proxies.                              *)
(*                                                                         *)
(*   proxysocks.cpp        HeaderBootstrap: a worker of the thread pool    *)
(*                         runs ConnectionHandler::handle() on one client  *)
(*                         connection and then deletes the handler.        *)
(*   src/socks5_server.cpp SOCKS5: one Session driven by the io_context    *)
(*                         event loop.                                     *)
(*                                                                         *)
(* A behaviour is a run of one of the programs; prog says which.           *)
(* Strings are C++ std::string values; positions are 0-based as in C++.    *)
(***************************************************************************)
EXTENDS Integers, Sequences, FiniteSets, TLC

VARIABLES
    prog,           \* "hb" (proxysocks.cpp) or "s5" (socks5_server.cpp)
    \* ---- proxysocks.cpp: configuration and environment
    PASS,           \* the configured passphrase (line 30)
    request,        \* the header block the client is still to send
    reqSent,        \* the client has sent the request
    cliRecvQ,       \* bytes that arrived on clientSock and were not read yet
    tgtRecvQ,       \* bytes that arrived on targetSock and were not read yet
    cliPeer,        \* client end: "open", "fin" (closed) or "rst" (reset)
    tgtPeer,        \* upstream end: "none", "open", "fin" or "rst"
    cSent,          \* number of relay bytes the client has sent
    tSent,          \* number of relay bytes the upstream has sent
    toClient,       \* every byte written to clientSock, in order
    toTarget,       \* every byte written to targetSock, in order
    edge,           \* fds with an edge-triggered event not yet reported
    fdState,        \* kernel state of each descriptor: "none", "open", "closed"
    closeCalls,     \* number of ::close calls made on each descriptor
    \* ---- proxysocks.cpp: ConnectionHandler and handle()'s locals
    hbPc,           \* where the worker is with this handler
    clientBuffer,   \* handle(): the initial bytes read from the client
    clientClosed,   \* ConnectionHandler::clientClosed
    targetClosed,   \* ConnectionHandler::targetClosed
    targetSock,     \* ConnectionHandler::targetSock (InvalidFd or the fd)
    epollFd,        \* ConnectionHandler::epollFd (InvalidFd or the fd)
    count,          \* handle(): consecutive empty epoll waits
    exitWhy,        \* why handle() returned (for reading traces)
    \* ---- socks5_server.cpp: the peers of one Session
    script,         \* the negotiation bytes of the client
    sPos,           \* how many of them the client has sent
    cIn,            \* bytes that arrived on client_socket_, not read yet
    rIn,            \* bytes that arrived on remote_socket_, not read yet
    cPeer,          \* client end: "open", "fin" or "rst"
    rPeer,          \* backend end: "none", "open", "fin" or "rst"
    cNum,           \* number of relay bytes the client has sent
    rNum,           \* number of relay bytes the backend has sent
    argv,           \* main(): the command-line arguments after argv[0]
    \* ---- socks5_server.cpp: the Session and its outstanding operations
    session,        \* the Session's members, see InitSession
    io,             \* "running", or "exited" once io_ctx.run() has thrown
    \* ---- proxysocks.cpp: main(), the signal handler and the thread pool
    running,        \* std::atomic<bool> running (line 43)
    mainPc,         \* where main() is
    mainSock,       \* main(): the connection accept() returned, 0 if none
    taskQueue,      \* std::queue<ConnectionHandler*> taskQueue
    taskMutex,      \* the pool thread that holds taskMutex, 0 if none
    workers,        \* each pool thread: its position and its handler
    handlers        \* each connection's ConnectionHandler, see NoHandler

envVars == <<PASS, request, reqSent, cliRecvQ, tgtRecvQ, cliPeer, tgtPeer,
             cSent, tSent, toClient, toTarget, edge, fdState, closeCalls>>
chVars  == <<hbPc, clientBuffer, clientClosed, targetClosed, targetSock,
             epollFd, count, exitWhy>>
hbVars  == <<envVars, chVars>>
s5Env   == <<script, sPos, cIn, rIn, cPeer, rPeer, cNum, rNum, argv>>
s5Vars  == <<s5Env, session, io>>
poolVars == <<running, mainPc, mainSock, taskQueue, taskMutex, workers, handlers>>
notHB   == <<prog, s5Vars, poolVars>>
notS5   == <<prog, hbVars, poolVars>>
notPool == <<prog, hbVars, s5Vars>>
vars    == <<prog, hbVars, s5Vars, poolVars>>

----------------------------------------------------------------------------
(* Bounds of the model *)

\* relay bytes each peer may send
MaxBytes == 1
\* connections that arrive at the listening socket
MaxConns == 2

----------------------------------------------------------------------------
(* proxysocks.cpp: constants (lines 28-40) *)

IP == "0.0.0.0"
BUFLEN == 131072
TIMEOUT == 60
THREAD_POOL_SIZE == 4
MSG == "@TMYCOMNECTVPN"
COR == "<font color=\"null\">"
FTAG == "</font>"
DEFAULT_HOST == "0.0.0.0:22"
RESPONSE == "HTTP/1.1 200 " \o COR \o MSG \o FTAG \o "\r\n\r\n"
WrongPass == "HTTP/1.1 400 WrongPass!\r\n\r\n"
Forbidden == "HTTP/1.1 403 Forbidden!\r\n\r\n"
BadGateway == "HTTP/1.1 502 Bad Gateway!\r\n\r\n"

\* std::string::npos
npos == 0 - 1
\* descriptors: the -1 of an unset one, and the three a handler may hold
InvalidFd == "-1"
ClientFd == "clientfd"
TargetFd == "targetfd"
EpollFd == "epollfd"
Fds == {ClientFd, TargetFd, EpollFd}

----------------------------------------------------------------------------
(* std::string operations used by the code *)

Min(a, b) == IF a < b THEN a ELSE b

SetMin(S) == CHOOSE x \in S : \A y \in S : x <= y

\* s.find(pat, from): first position >= from where pat occurs, or npos
Find(s, pat, from) ==
    LET hits == {i \in from..(Len(s) - Len(pat)) :
                    SubSeq(s, i + 1, i + Len(pat)) = pat}
    IN  IF hits = {} THEN npos ELSE SetMin(hits)

\* s.substr(pos) and s.substr(pos, n)
Substr(s, pos) == SubSeq(s, pos + 1, Len(s))
SubstrN(s, pos, n) == SubSeq(s, pos + 1, Min(pos + n, Len(s)))

\* a peer to which bytes can still be written
Writable(peer) == peer \in {"open", "fin"}

StartsWith(s, p) == Len(p) <= Len(s) /\ SubSeq(s, 1, Len(p)) = p

Digits == "0123456789"
IsDigit(c) == \E d \in 0..9 : SubSeq(Digits, d + 1, d + 1) = c

\* std::stoi(s) throws std::invalid_argument when no digit can be converted
\* (after optional white space and sign)
RECURSIVE SkipSpaces(_)
SkipSpaces(s) ==
    IF Len(s) > 0 /\ SubSeq(s, 1, 1) = " " THEN SkipSpaces(Substr(s, 1)) ELSE s
SkipSign(s) ==
    IF Len(s) > 0 /\ SubSeq(s, 1, 1) \in {"+", "-"} THEN Substr(s, 1) ELSE s
StoiThrows(s) ==
    LET t == SkipSign(SkipSpaces(s))
    IN  Len(t) = 0 \/ ~IsDigit(SubSeq(t, 1, 1))
\* the value std::stoi converts: the leading decimal digits
RECURSIVE StoiDigits(_, _)
StoiDigits(t, acc) ==
    IF Len(t) = 0 \/ ~IsDigit(SubSeq(t, 1, 1)) THEN acc
    ELSE StoiDigits(Substr(t, 1),
                    10 * acc + (CHOOSE d \in 0..9 : SubSeq(Digits, d + 1, d + 1) = SubSeq(t, 1, 1)))
Stoi(s) ==
    LET t == SkipSpaces(s)
        v == StoiDigits(SkipSign(t), 0)
    IN  IF Len(t) > 0 /\ SubSeq(t, 1, 1) = "-" THEN 0 - v ELSE v

findHeader(head, header) ==
    LET aux1 == Find(head, header \o ": ", 0)
    IN  IF aux1 = npos THEN ""
        ELSE LET aux2 == Find(head, ":", aux1)
             IN  IF aux2 = npos THEN ""
                 ELSE LET sub  == Substr(head, aux2 + 2)
                          aux3 == Find(sub, "\r\n", 0)
                      IN  IF aux3 = npos THEN "" ELSE SubstrN(sub, 0, aux3)

----------------------------------------------------------------------------
(* The requests and configurations explored *)

ReqLine == "GET / HTTP/1.1\r\n"
PassLines == {"", "X-Pass: secret\r\n", "X-Pass: wrong\r\n"}
SplitLines == {"", "X-Split: 1\r\n"}
HostLines == {"", "X-Real-Host: 0.0.0.0:22\r\n", "X-Real-Host: 10.0.0.1:22\r\n",
              "X-Real-Host: 0.0.0.0:x\r\n", "X-Real-Host: 10.0.0.1\r\n"}
\* a last header line whose value has no CRLF after it
OpenHostLine == "X-Real-Host: 10.0.0.1:22"
Requests ==
    {ReqLine \o p \o s \o h \o "\r\n" :
        p \in PassLines, s \in SplitLines, h \in HostLines}
    \cup {ReqLine \o p \o OpenHostLine : p \in PassLines}
Passphrases == {"", "secret"}

\* the relay bytes of each peer: the k-th byte sent is the k-th of these
ClientStream == "abcd"
TargetStream == "wxyz"

----------------------------------------------------------------------------
(* proxysocks.cpp: ConnectionHandler *)

\* handle(), lines 194-195: the target, DEFAULT_HOST when the header is
\* absent or empty
HostPort(buf) ==
    LET hostPort == findHeader(buf, "X-Real-Host")
    IN  IF hostPort = "" THEN DEFAULT_HOST ELSE hostPort

\* an authorization that forgets the passphrase branch of line 205
AllowedHostOnly(pass, buf) == Find(HostPort(buf), IP, 0) = 0

\* handle(), lines 204-206
Allowed(pass, buf) ==
    LET passwd == findHeader(buf, "X-Pass")
    IN  IF pass # "" /\ passwd = pass THEN TRUE
        ELSE Find(HostPort(buf), IP, 0) = 0

\* a rejection that does not look at the passphrase
ErrRespForbidden(pass, buf) == Forbidden

\* handle(), line 209
ErrResp(pass, buf) ==
    LET passwd == findHeader(buf, "X-Pass")
    IN  IF pass # "" /\ passwd # pass THEN WrongPass ELSE Forbidden

\* send(clientSock, ...) / send(targetSock, ...): what the peer's stream holds
\* afterwards; nothing is accepted once the peer has reset the connection
SendTo(peer, stream, bytes) == IF peer = "rst" THEN stream ELSE stream \o bytes

\* a handle() that enters the relay without sending the success line
AcceptReplyMissing(peer, stream) == stream

\* handle(), line 224: the success line is sent to the client
AcceptReply(peer, stream) == SendTo(peer, stream, RESPONSE)

\* The handler's fields together with the kernel's view of its descriptors
Handler ==
    [clientSock |-> ClientFd, targetSock |-> targetSock,
     clientClosed |-> clientClosed, targetClosed |-> targetClosed,
     epollFd |-> epollFd, fdState |-> fdState, closeCalls |-> closeCalls]

\* ::close(fd) (after shutdown(fd, SHUT_RDWR) where the code calls it)
SysClose(h, fd) ==
    [h EXCEPT !.fdState[fd] = "closed", !.closeCalls[fd] = @ + 1]

\* a close() that does not record that it has closed the sockets
closeNoFlag(h) ==
    LET h1 == IF ~h.clientClosed /\ h.clientSock # InvalidFd
              THEN SysClose(h, h.clientSock) ELSE h
    IN  IF ~h1.targetClosed /\ h1.targetSock # InvalidFd
        THEN SysClose(h1, h1.targetSock) ELSE h1

\* ConnectionHandler::close(), lines 103-114
close(h) ==
    LET h1 == IF ~h.clientClosed /\ h.clientSock # InvalidFd
              THEN [SysClose(h, h.clientSock) EXCEPT !.clientClosed = TRUE]
              ELSE h
    IN  IF ~h1.targetClosed /\ h1.targetSock # InvalidFd
        THEN [SysClose(h1, h1.targetSock) EXCEPT !.targetClosed = TRUE]
        ELSE h1

\* a destructor that releases the epoll descriptor only
DestroyNoClose(h) ==
    IF h.epollFd # InvalidFd THEN SysClose(h, h.epollFd) ELSE h

\* ConnectionHandler::~ConnectionHandler(), lines 98-101
Destroy(h) ==
    LET h1 == close(h)
    IN  IF h1.epollFd # InvalidFd THEN SysClose(h1, h1.epollFd) ELSE h1

----------------------------------------------------------------------------
(* socks5_server.cpp: the Session (lines 80-295) *)

\* The asynchronous operations a Session can have outstanding.  An operation
\* is "waiting" from its initiation until the reactor has performed the I/O,
\* then "done": its completion handler k is queued with the result ec.
\*   cread   reads on client_socket_       rread   reads on remote_socket_
\*   creply  replies to the client         crelay  relayed writes to the client
\*   rwrite  relayed writes to the backend resolve, connect
Slots == {"cread", "creply", "rread", "crelay", "rwrite", "resolve", "connect"}
ClientSlots == {"cread", "creply", "crelay"}
RemoteSlots == {"rread", "rwrite", "connect"}
\* std::array<uint8_t, 8192> buffer_, line 294
BufferSize == 8192
NoOp == [st |-> "idle", k |-> "", n |-> 0, ec |-> "ok"]

\* a value read through a reference to an object whose lifetime has ended
IndeterminateAddr == "indeterminate"
IndeterminatePort == 0 - 1

\* Session::Session, lines 82-83, and Server::accept, lines 310-313
InitSession ==
    [client_socket_ |-> "open",
     remote_socket_ |-> "closed",
     opens    |-> [client |-> 1, remote |-> 0],
     closes   |-> [client |-> 0, remote |-> 0],
     timer_   |-> [waiting |-> FALSE, secs |-> 0, fired |-> 0, traffic |-> FALSE],
     buffer_  |-> << >>,
     ops      |-> [x \in Slots |-> NoOp],
     toClient |-> << >>,
     toRemote |-> << >>,
     dest_addr |-> "",
     dest_port |-> 0,
     endpoints |-> << >>,
     clash    |-> FALSE]

\* the first n bytes of buffer_; what was never written is indeterminate
BufferBytes(buf, n) == [i \in 1..n |-> IF i <= Len(buf) THEN buf[i] ELSE 0 - 1]
\* buffer_ after a read stored data at its start
BufferStore(buf, data) == data \o SubSeq(buf, Len(data) + 1, Len(buf))

\* steady_timer: expires_after and cancel complete a pending wait with
\* operation_aborted (its handler then does nothing, line 98); a wait whose
\* expiry was already queued is not affected
cancel_timeout(s) == [s EXCEPT !.timer_.waiting = FALSE, !.timer_.traffic = FALSE]

\* lines 94-103
set_timeout(s, seconds) ==
    [s EXCEPT !.timer_.waiting = TRUE, !.timer_.secs = seconds,
              !.timer_.traffic = FALSE]
\* lines 257-275: a relay handler has moved data while the timer waits.  The
\* deadline stays where expires_after put it; timer_.traffic records that the
\* pending wait began before this data.
Traffic(s) == [s EXCEPT !.timer_.traffic = s.timer_.waiting]

\* tcp::socket::close(): closes the descriptor if the socket is open, and
\* completes the operations waiting on it with operation_aborted
CloseSocket(s, sock) ==
    LET mine == IF sock = "client" THEN ClientSlots ELSE RemoteSlots
        open == IF sock = "client" THEN s.client_socket_ ELSE s.remote_socket_
        s1 == IF sock = "client" THEN [s EXCEPT !.client_socket_ = "closed"]
              ELSE [s EXCEPT !.remote_socket_ = "closed"]
    IN  IF open # "open" THEN s
        ELSE [s1 EXCEPT !.closes[sock] = @ + 1,
                        !.ops = [x \in Slots |->
                                   IF x \in mine /\ s.ops[x].st = "waiting"
                                   THEN [s.ops[x] EXCEPT !.st = "done", !.ec = "aborted"]
                                   ELSE s.ops[x]]]

\* a handle_error that leaves client_socket_ open
handle_errorRemoteOnly(s) ==
    CloseSocket(cancel_timeout(s), "remote")

\* lines 279-288
handle_error(s) ==
    CloseSocket(CloseSocket(cancel_timeout(s), "client"), "remote")

\* initiation of an operation on a slot
Start(s, slot, k, n) ==
    LET sock == IF slot \in ClientSlots THEN s.client_socket_
                ELSE IF slot \in RemoteSlots THEN s.remote_socket_ ELSE "open"
    IN  [s EXCEPT !.clash = @ \/ s.ops[slot].st # "idle",
                  !.ops[slot] =
                      IF sock = "open"
                      THEN [st |-> "waiting", k |-> k, n |-> n, ec |-> "ok"]
                      ELSE [st |-> "done", k |-> k, n |-> n, ec |-> "bad_descriptor"]]

\* async_write of a short reply on client_socket_: the send is performed
\* at initiation (the socket's send buffer is empty), its handler k is queued
WriteReply(s, k, n, bytes) ==
    LET s1 == Start(s, "creply", k, n)
    IN  IF s1.ops["creply"].st = "done" THEN s1
        ELSE IF cPeer = "rst"
        THEN [s1 EXCEPT !.ops["creply"].st = "done", !.ops["creply"].ec = "broken_pipe"]
        ELSE [s1 EXCEPT !.ops["creply"].st = "done", !.toClient = @ \o bytes]

\* lines 224-246; the address and port of a successful reply are those of
\* remote_socket_'s local endpoint
LocalEndpoint == <<127, 0, 0, 1, 200, 1>>
\* a send_reply that leaves the bound address and port for a later write
send_replyHeaderOnly(s, rep) ==
    WriteReply(s, "reply", rep, <<5, rep, 0, 1>>)

\* a send_reply that reports success whatever the code
send_replySucceeded(s, rep) ==
    WriteReply(s, "reply", rep, <<5, 0, 0, 1>> \o LocalEndpoint)

send_reply(s, rep) ==
    WriteReply(s, "reply", rep,
               <<5, rep, 0, 1>> \o (IF rep = 0 THEN LocalEndpoint ELSE <<0, 0, 0, 0, 0, 0>>))

\* lines 109-111
read_handshake(s) == Start(s, "cread", "handshake", 2)
\* lines 141-143
read_request(s) == Start(s, "cread", "request", 4)
\* lines 187-189
read_port(s) == Start(s, "cread", "port", 2)
\* lines 255-256 and 267-268: async_read_some, n = 0 stands for "some"
read_from_client(s) == Start(s, "cread", "from_client", 0)
read_from_remote(s) == Start(s, "rread", "from_remote", 0)
\* lines 248-253
forward_data(s) == read_from_remote(read_from_client(set_timeout(s, 300)))
\* connect_remote, lines 205-206: the backend every session is sent to
fixed_target_port == 22
fixed_target_addr == "127.0.0.1"
\* a connect_remote that resolves the destination the client asked for
connect_remoteRequested(s) ==
    Start([s EXCEPT !.endpoints = <<s.dest_addr, s.dest_port>>],
          "resolve", "resolved", 0)
\* lines 198-208; the resolver is a local of connect_remote.  endpoints is
\* what the query handed to async_resolve resolves to, which the handler of
\* line 209 passes to async_connect; s.dest_addr and s.dest_port, the
\* parameters, are not used.
connect_remote(s) ==
    Start([s EXCEPT !.endpoints = <<fixed_target_addr, fixed_target_port>>],
          "resolve", "resolved", 0)
\* lines 87-91
start(s) == read_handshake(set_timeout(s, 30))

\* A uint32_t or uint16_t is written as its base-256 digits, most significant
\* first.  *reinterpret_cast<uint32_t*>(buffer_.data()), line 156, on a host
\* of the given byte order:
Load32(b, order) ==
    IF order = "little" THEN <<b[4], b[3], b[2], b[1]>> ELSE <<b[1], b[2], b[3], b[4]>>
Swap32(x) == <<x[4], x[3], x[2], x[1]>>
\* ntohl, line 156
Ntohl(x, order) == IF order = "little" THEN Swap32(x) ELSE x
\* make_address_v4(ip).to_string(), line 157
V4String(ip) ==
    ToString(ip[1]) \o "." \o ToString(ip[2]) \o "."
        \o ToString(ip[3]) \o "." \o ToString(ip[4])
ParseV4(buf, order) == V4String(Ntohl(Load32(BufferBytes(buf, 4), order), order))

\* *reinterpret_cast<uint16_t*>(buffer_.data()), line 192
Load16(b, order) == IF order = "little" THEN <<b[2], b[1]>> ELSE <<b[1], b[2]>>
Swap16(x) == <<x[2], x[1]>>
\* ntohs, line 192
Ntohs(x, order) == IF order = "little" THEN Swap16(x) ELSE x
\* the uint16_t as a number
Value16(x) == 256 * x[1] + x[2]
ParsePort(buf, order) == Value16(Ntohs(Load16(BufferBytes(buf, 2), order), order))

ByteOrders == {"little", "big"}

\* dest_addr.assign(reinterpret_cast<char*>(buffer_.data()), len), line 168
Ascii == "abcdefghijklmnopqrstuvwxyz"
Chr(b) == IF b \in 97..122 THEN SubSeq(Ascii, b - 96, b - 96) ELSE "?"
RECURSIVE BytesToString(_)
BytesToString(b) ==
    IF Len(b) = 0 THEN "" ELSE Chr(b[1]) \o BytesToString(Tail(b))

----------------------------------------------------------------------------
(* socks5_server.cpp: the clients explored *)

\* method negotiation messages: version, nmethods, methods
Greetings ==
    {<<5, 1, 0>>, <<5, 2, 2, 0>>, <<5, 0>>, <<5, 1, 2>>, <<5, 2, 1, 2>>, <<4, 1, 0>>}
AcceptedGreeting == <<5, 1, 0>>
\* requests: version, command, reserved, address type, address, port
SocksRequests ==
    {<<5, 1, 0, 1, 127, 0, 0, 1, 0, 22>>,
     <<5, 1, 0, 3, 2, 104, 105, 0, 80>>,
     <<5, 1, 0, 4, 0, 0, 0, 0, 0, 0, 0, 0, 0, 0, 0, 0, 0, 0, 0, 1, 0, 22>>,
     <<5, 2, 0, 1, 127, 0, 0, 1, 0, 22>>,
     <<4, 1, 0, 1, 127, 0, 0, 1, 0, 22>>,
     <<5, 1, 0, 9, 0, 22>>}
Scripts ==
    Greetings \cup {AcceptedGreeting \o r : r \in SocksRequests}
\* command lines: no argument, or the target port of the OpenVPN backend
Args == {<< >>, <<"1194">>}
\* main(), lines 329-336: its local fixed_target_port, which nothing reads
MainTargetPort ==
    IF Len(argv) > 0 /\ ~StoiThrows(argv[1]) THEN Stoi(argv[1]) % 65536 ELSE 22

\* the relay bytes of each peer: the k-th byte sent is the k-th of these
ClientBytes == <<97, 98, 99, 100>>
RemoteBytes == <<119, 120, 121, 122>>

\* the pool threads and the connections of a run of main()
Workers == 1..THREAD_POOL_SIZE
Conns == 1..MaxConns

\* a connection that has not arrived: no handler exists
NoHandler ==
    [status |-> "none", clientSock |-> ClientFd, targetSock |-> InvalidFd,
     clientClosed |-> FALSE, targetClosed |-> TRUE, epollFd |-> InvalidFd,
     fdState |-> [f \in Fds |-> "none"], closeCalls |-> [f \in Fds |-> 0]]

\* the state of the pool variables in a run that follows one connection
IdlePool ==
    /\ running = TRUE /\ mainPc = "none" /\ mainSock = 0
    /\ taskQueue = << >> /\ taskMutex = 0
    /\ workers = [w \in Workers |-> [pc |-> "none", handler |-> 0]]
    /\ handlers = [c \in Conns |-> NoHandler]

\* the state of the HeaderBootstrap variables in a SOCKS5 run
IdleHB ==
    /\ PASS = "" /\ request = "" /\ reqSent = FALSE
    /\ cliRecvQ = "" /\ tgtRecvQ = ""
    /\ cliPeer = "open" /\ tgtPeer = "none"
    /\ cSent = 0 /\ tSent = 0
    /\ toClient = "" /\ toTarget = ""
    /\ edge = {}
    /\ fdState = [f \in Fds |-> "none"]
    /\ closeCalls = [f \in Fds |-> 0]
    /\ hbPc = "none"
    /\ clientBuffer = ""
    /\ clientClosed = FALSE /\ targetClosed = TRUE
    /\ targetSock = InvalidFd /\ epollFd = InvalidFd
    /\ count = 0
    /\ exitWhy = ""

\* the state of the SOCKS5 variables in a HeaderBootstrap run
IdleS5 ==
    /\ script = << >> /\ sPos = 0 /\ cIn = << >> /\ rIn = << >>
    /\ cPeer = "open" /\ rPeer = "none"
    /\ cNum = 0 /\ rNum = 0
    /\ argv = << >>
    /\ session = InitSession
    /\ io = "running"

\* Server::accept, lines 309-313: a connection was accepted, the Session
\* started
InitS5 ==
    /\ prog = "s5"
    /\ IdleHB
    /\ script \in Scripts /\ sPos = 0
    /\ cIn = << >> /\ rIn = << >>
    /\ cPeer = "open" /\ rPeer = "none"
    /\ cNum = 0 /\ rNum = 0
    /\ argv \in Args
    /\ session = start(InitSession)
    /\ io = "running"
    /\ IdlePool

----------------------------------------------------------------------------
(* socks5_server.cpp: the peers and the reactor *)

Running == prog = "s5" /\ io = "running"

\* the success reply has reached the client
ReplySucceeded(s) == Len(s.toClient) >= 4 /\ SubSeq(s.toClient, 3, 4) = <<5, 0>>

\* the next negotiation byte of the client arrives
ClientDeliver ==
    /\ Running /\ cPeer = "open" /\ sPos < Len(script)
    /\ session.client_socket_ = "open"
    /\ cIn' = Append(cIn, script[sPos + 1])
    /\ sPos' = sPos + 1
    /\ UNCHANGED <<notS5, script, argv, rIn, cPeer, rPeer, cNum, rNum, session, io>>

\* the client, having read the success reply, sends its next tunnel byte
ClientRelaySend ==
    /\ Running /\ cPeer = "open" /\ sPos = Len(script)
    /\ ReplySucceeded(session) /\ session.client_socket_ = "open"
    /\ cNum < MaxBytes
    /\ cNum' = cNum + 1
    /\ cIn' = Append(cIn, ClientBytes[cNum + 1])
    /\ UNCHANGED <<notS5, script, argv, sPos, rIn, cPeer, rPeer, rNum, session, io>>

\* the backend sends its next tunnel byte
RemoteSend ==
    /\ Running /\ rPeer = "open" /\ session.remote_socket_ = "open"
    /\ rNum < MaxBytes
    /\ rNum' = rNum + 1
    /\ rIn' = Append(rIn, RemoteBytes[rNum + 1])
    /\ UNCHANGED <<notS5, script, argv, sPos, cIn, cPeer, rPeer, cNum, session, io>>

\* the client closes or resets its end
ClientGone ==
    /\ Running /\ cPeer = "open" /\ session.client_socket_ = "open"
    /\ cPeer' \in {"fin", "rst"}
    /\ UNCHANGED <<notS5, script, argv, sPos, cIn, rIn, rPeer, cNum, rNum, session, io>>

\* the backend closes or resets its end
RemoteGone ==
    /\ Running /\ rPeer = "open" /\ session.remote_socket_ = "open"
    /\ rPeer' \in {"fin", "rst"}
    /\ UNCHANGED <<notS5, script, argv, sPos, cIn, rIn, cPeer, cNum, rNum, session, io>>

\* the timer of the current step expires: its handler is queued
TimerExpire ==
    /\ Running /\ session.timer_.waiting
    /\ session' = [session EXCEPT !.timer_.waiting = FALSE, !.timer_.fired = @ + 1,
                                  !.timer_.traffic = FALSE]
    /\ UNCHANGED <<notS5, s5Env, io>>

\* a read of n bytes (n = 0: of some bytes) on a socket whose peer is peer
\* and whose received bytes are q: the operation afterwards, and the bytes
\* it took
ReadResult(op, q, peer) ==
    LET exact == op.k # "from_client" /\ op.k # "from_remote"
        want == IF exact THEN op.n ELSE Min(Len(q), BufferSize)
    IN  IF exact /\ op.n = 0 THEN [op |-> [op EXCEPT !.st = "done"], took |-> 0]
        ELSE IF peer = "rst"
        THEN [op |-> [op EXCEPT !.st = "done", !.ec = "connection_reset"], took |-> 0]
        ELSE IF Len(q) >= want /\ want > 0
        THEN [op |-> [op EXCEPT !.st = "done", !.n = want], took |-> want]
        ELSE IF peer = "fin"
        THEN [op |-> [op EXCEPT !.st = "done", !.ec = "eof"], took |-> Len(q)]
        ELSE [op |-> op, took |-> 0]

\* the reactor performs a read on client_socket_
PerformClientRead ==
    /\ Running /\ session.ops["cread"].st = "waiting"
    /\ LET r == ReadResult(session.ops["cread"], cIn, cPeer)
       IN  /\ r.op.st = "done"
           /\ cIn' = SubSeq(cIn, r.took + 1, Len(cIn))
           /\ session' = [session EXCEPT
                  !.ops["cread"] = r.op,
                  !.buffer_ = IF r.op.ec = "ok"
                              THEN BufferStore(@, SubSeq(cIn, 1, r.took)) ELSE @]
    /\ UNCHANGED <<notS5, script, argv, sPos, rIn, cPeer, rPeer, cNum, rNum, io>>

\* the reactor performs a read on remote_socket_
PerformRemoteRead ==
    /\ Running /\ session.ops["rread"].st = "waiting"
    /\ LET r == ReadResult(session.ops["rread"], rIn, rPeer)
       IN  /\ r.op.st = "done"
           /\ rIn' = SubSeq(rIn, r.took + 1, Len(rIn))
           /\ session' = [session EXCEPT
                  !.ops["rread"] = r.op,
                  !.buffer_ = IF r.op.ec = "ok"
                              THEN BufferStore(@, SubSeq(rIn, 1, r.took)) ELSE @]
    /\ UNCHANGED <<notS5, script, argv, sPos, cIn, cPeer, rPeer, cNum, rNum, io>>

\* the reactor performs a relayed write: the bytes sent are those buffer_
\* holds when the send is made
PerformRelayWrite(s, slot) ==
    LET peer == IF slot = "rwrite" THEN rPeer ELSE cPeer
        bytes == BufferBytes(s.buffer_, s.ops[slot].n)
    IN  IF ~Writable(peer)
        THEN [s EXCEPT !.ops[slot].st = "done", !.ops[slot].ec = "broken_pipe"]
        ELSE IF slot = "rwrite"
        THEN [s EXCEPT !.ops[slot].st = "done", !.toRemote = @ \o bytes]
        ELSE [s EXCEPT !.ops[slot].st = "done", !.toClient = @ \o bytes]

PerformWrite ==
    /\ Running
    /\ \E slot \in {"rwrite", "crelay"} :
         /\ session.ops[slot].st = "waiting"
         /\ session' = PerformRelayWrite(session, slot)
    /\ UNCHANGED <<notS5, s5Env, io>>

\* the resolver's thread finishes the query; the resolver itself was
\* destroyed when connect_remote returned, which cancels a query not begun
PerformResolve ==
    /\ Running /\ session.ops["resolve"].st = "waiting"
    /\ \E ec \in {"ok", "aborted", "host_not_found"} :
         session' = [session EXCEPT !.ops["resolve"].st = "done",
                                    !.ops["resolve"].ec = ec]
    /\ UNCHANGED <<notS5, s5Env, io>>

\* the connection attempt to the backend ends
PerformConnect ==
    /\ Running /\ session.ops["connect"].st = "waiting"
    /\ \E ec \in {"ok", "connection_refused"} :
         /\ session' = [session EXCEPT !.ops["connect"].st = "done",
                                       !.ops["connect"].ec = ec]
         /\ rPeer' = IF ec = "ok" THEN "open" ELSE "rst"
    /\ UNCHANGED <<notS5, script, argv, sPos, cIn, rIn, cPeer, cNum, rNum, io>>

----------------------------------------------------------------------------
(* socks5_server.cpp: the completion handlers *)

\* the handler k of slot is queued
Queued(slot, k) ==
    /\ Running
    /\ session.ops[slot].st = "done" /\ session.ops[slot].k = k

\* the session once the handler of slot has been taken off the queue
Taken(slot) == [session EXCEPT !.ops[slot] = NoOp]
Failed(slot) == session.ops[slot].ec # "ok"

\* read_handshake, lines 112-116
OnGreetingHeader ==
    /\ Queued("cread", "handshake")
    /\ LET s == Taken("cread")
       IN  session' = IF Failed("cread") THEN handle_error(s)
                      ELSE IF s.buffer_[1] # 5 THEN handle_error(s)
                      ELSE Start(s, "cread", "methods", s.buffer_[2])
    /\ UNCHANGED <<notS5, s5Env, io>>

\* a scan that takes an empty method list for an offer of no-authentication
NoAuthOfferedOrEmpty(buf, nmethods) ==
    nmethods = 0 \/ \E i \in 1..nmethods : BufferBytes(buf, nmethods)[i] = 0

\* no_auth, lines 119-122
NoAuthOffered(buf, nmethods) ==
    \E i \in 1..nmethods : BufferBytes(buf, nmethods)[i] = 0

\* read_handshake, lines 117-136
OnMethods ==
    /\ Queued("cread", "methods")
    /\ LET s == Taken("cread")
           nmethods == session.ops["cread"].n
       IN  session' = IF Failed("cread") THEN handle_error(s)
                      ELSE IF ~NoAuthOffered(s.buffer_, nmethods)
                      THEN WriteReply(s, "method_rejected", 255, <<5, 255>>)
                      ELSE WriteReply(s, "method_accepted", 0, <<5, 0>>)
    /\ UNCHANGED <<notS5, s5Env, io>>

\* read_handshake, line 126
OnMethodRejected ==
    /\ Queued("creply", "method_rejected")
    /\ session' = handle_error(Taken("creply"))
    /\ UNCHANGED <<notS5, s5Env, io>>

\* read_handshake, lines 131-136
OnMethodAccepted ==
    /\ Queued("creply", "method_accepted")
    /\ LET s == Taken("creply")
       IN  session' = IF Failed("creply") THEN handle_error(s)
                      ELSE read_request(set_timeout(cancel_timeout(s), 30))
    /\ UNCHANGED <<notS5, s5Env, io>>

\* read_request, lines 144-184
OnRequestHeader ==
    /\ Queued("cread", "request")
    /\ LET s == Taken("cread")
           atype == s.buffer_[4]
       IN  session' =
             IF Failed("cread") THEN handle_error(s)
             ELSE IF s.buffer_[1] # 5 \/ s.buffer_[2] # 1 THEN send_reply(s, 7)
             ELSE IF atype = 1 THEN Start(s, "cread", "ipv4", 4)
             ELSE IF atype = 3 THEN Start(s, "cread", "domain_length", 1)
             ELSE IF atype = 4 THEN Start(s, "cread", "ipv6", 16)
             ELSE send_reply(s, 8)
    /\ UNCHANGED <<notS5, s5Env, io>>

\* read_request, lines 154-159.  dest_addr is a local of the handler of
\* lines 144-184, which has returned: the assignment goes through a
\* dangling reference, and read_port copies whatever the object then holds.
OnIPv4 ==
    /\ Queued("cread", "ipv4")
    /\ LET s == Taken("cread")
       IN  IF Failed("cread") THEN session' = handle_error(s)
           ELSE \E order \in ByteOrders :
                \E addr \in {ParseV4(s.buffer_, order), IndeterminateAddr} :
                  session' = read_port([s EXCEPT !.dest_addr = addr])
    /\ UNCHANGED <<notS5, s5Env, io>>

\* read_request, lines 162-165
OnDomainLength ==
    /\ Queued("cread", "domain_length")
    /\ LET s == Taken("cread")
       IN  session' = IF Failed("cread") THEN handle_error(s)
                      ELSE Start(s, "cread", "domain", s.buffer_[1])
    /\ UNCHANGED <<notS5, s5Env, io>>

\* read_request, lines 166-170 (dest_addr dangles as in OnIPv4)
OnDomain ==
    /\ Queued("cread", "domain")
    /\ LET s == Taken("cread")
           len == session.ops["cread"].n
       IN  IF Failed("cread") THEN session' = handle_error(s)
           ELSE \E addr \in {BytesToString(BufferBytes(s.buffer_, len)),
                              IndeterminateAddr} :
                  session' = read_port([s EXCEPT !.dest_addr = addr])
    /\ UNCHANGED <<notS5, s5Env, io>>

\* read_request, lines 174-180 (dest_addr dangles as in OnIPv4); the text
\* form of an IPv6 address is left abstract
OnIPv6 ==
    /\ Queued("cread", "ipv6")
    /\ LET s == Taken("cread")
       IN  IF Failed("cread") THEN session' = handle_error(s)
           ELSE \E addr \in {"ipv6", IndeterminateAddr} :
                  session' = read_port([s EXCEPT !.dest_addr = addr])
    /\ UNCHANGED <<notS5, s5Env, io>>

\* read_port, lines 190-195.  dest_port is a reference to a local of the
\* handler of lines 144-184: it is written and read after that local's
\* lifetime has ended.
OnPort ==
    /\ Queued("cread", "port")
    /\ LET s == Taken("cread")
       IN  IF Failed("cread") THEN session' = handle_error(s)
           ELSE \E order \in ByteOrders :
                \E port \in {ParsePort(s.buffer_, order), IndeterminatePort} :
                  session' = connect_remote([s EXCEPT !.dest_port = port])
    /\ UNCHANGED <<notS5, s5Env, io>>

\* connect_remote, lines 209-213: async_connect opens remote_socket_.  The
\* parameters dest_addr and dest_port of connect_remote are not captured by
\* this handler.
OnResolved ==
    /\ Queued("resolve", "resolved")
    /\ LET s == [Taken("resolve") EXCEPT !.dest_addr = "", !.dest_port = 0]
       IN  session' =
             IF Failed("resolve") THEN send_reply(s, 1)
             ELSE Start([s EXCEPT !.remote_socket_ = "open", !.opens["remote"] = @ + 1],
                        "connect", "connected", 0)
    /\ UNCHANGED <<notS5, s5Env, io>>

\* connect_remote, lines 214-220; local_endpoint() throws on a closed
\* socket, and the exception leaves io_ctx.run()
OnConnected ==
    /\ Queued("connect", "connected")
    /\ LET s == Taken("connect")
       IN  IF Failed("connect")
           THEN session' = send_reply(s, 1) /\ io' = io
           ELSE IF s.remote_socket_ # "open"
           THEN session' = cancel_timeout(s) /\ io' = "exited"
           ELSE session' = forward_data(send_reply(cancel_timeout(s), 0)) /\ io' = io
    /\ UNCHANGED <<notS5, s5Env>>

\* send_reply, lines 243-245
OnReplySent ==
    /\ Queued("creply", "reply")
    /\ LET s == Taken("creply")
           rep == session.ops["creply"].n
       IN  session' = IF Failed("creply") \/ rep # 0 THEN handle_error(s) ELSE s
    /\ UNCHANGED <<notS5, s5Env, io>>

\* read_from_client, lines 257-259
OnClientData ==
    /\ Queued("cread", "from_client")
    /\ LET s == Taken("cread")
           length == session.ops["cread"].n
       IN  session' = IF Failed("cread") THEN handle_error(s)
                      ELSE Start(Traffic(s), "rwrite", "to_remote", length)
    /\ UNCHANGED <<notS5, s5Env, io>>

\* read_from_client, lines 260-263
OnRemoteWritten ==
    /\ Queued("rwrite", "to_remote")
    /\ LET s == Taken("rwrite")
       IN  session' = IF Failed("rwrite") THEN handle_error(s)
                      ELSE read_from_client(Traffic(s))
    /\ UNCHANGED <<notS5, s5Env, io>>

\* read_from_remote, lines 269-271
OnRemoteData ==
    /\ Queued("rread", "from_remote")
    /\ LET s == Taken("rread")
           length == session.ops["rread"].n
       IN  session' = IF Failed("rread") THEN handle_error(s)
                      ELSE Start(Traffic(s), "crelay", "to_client", length)
    /\ UNCHANGED <<notS5, s5Env, io>>

\* read_from_remote, lines 272-275
OnClientWritten ==
    /\ Queued("crelay", "to_client")
    /\ LET s == Taken("crelay")
       IN  session' = IF Failed("crelay") THEN handle_error(s)
                      ELSE read_from_remote(Traffic(s))
    /\ UNCHANGED <<notS5, s5Env, io>>

\* set_timeout, lines 97-102: the handler of an expired wait
OnTimeout ==
    /\ Running /\ session.timer_.fired > 0
    /\ session' = handle_error([session EXCEPT !.timer_.fired = @ - 1])
    /\ UNCHANGED <<notS5, s5Env, io>>

NextS5 ==
    \/ ClientDeliver \/ ClientRelaySend \/ RemoteSend \/ ClientGone \/ RemoteGone
    \/ TimerExpire
    \/ PerformClientRead \/ PerformRemoteRead \/ PerformWrite
    \/ PerformResolve \/ PerformConnect
    \/ OnGreetingHeader \/ OnMethods \/ OnMethodRejected \/ OnMethodAccepted
    \/ OnRequestHeader \/ OnIPv4 \/ OnDomainLength \/ OnDomain \/ OnIPv6 \/ OnPort
    \/ OnResolved \/ OnConnected \/ OnReplySent
    \/ OnClientData \/ OnRemoteWritten \/ OnRemoteData \/ OnClientWritten
    \/ OnTimeout

----------------------------------------------------------------------------
(* proxysocks.cpp: initial state of one connection *)

\* main(), lines 392-404: a connection was accepted and its handler
\* constructed (lines 86-96) and queued; a worker takes it (lines 323-326).
InitHB ==
    /\ prog = "hb"
    /\ PASS \in Passphrases
    /\ request \in Requests
    /\ reqSent = FALSE
    /\ cliRecvQ = "" /\ tgtRecvQ = ""
    /\ cliPeer = "open" /\ tgtPeer = "none"
    /\ cSent = 0 /\ tSent = 0
    /\ toClient = "" /\ toTarget = ""
    /\ edge = {}
    /\ fdState = [f \in Fds |-> IF f = ClientFd THEN "open" ELSE "none"]
    /\ closeCalls = [f \in Fds |-> 0]
    /\ hbPc = "handle"
    /\ clientBuffer = ""
    /\ clientClosed = FALSE /\ targetClosed = TRUE
    /\ targetSock = InvalidFd /\ epollFd = InvalidFd
    /\ count = 0
    /\ exitWhy = ""
    /\ IdleS5
    /\ IdlePool

----------------------------------------------------------------------------
(* proxysocks.cpp: the peers *)

\* what epoll would report for a descriptor that is registered now
Registered == IF hbPc = "relay" THEN {ClientFd, TargetFd} ELSE {}

\* the client sends its header block: before the worker's initial recv, or
\* after it while the handler still holds the connection
ClientSendRequest ==
    /\ prog = "hb" /\ hbPc \in {"handle", "auth", "connect", "returned"}
    /\ ~reqSent /\ cliPeer = "open"
    /\ reqSent' = TRUE
    /\ cliRecvQ' = cliRecvQ \o request
    /\ request' = ""
    /\ UNCHANGED <<notHB, PASS, tgtRecvQ, cliPeer, tgtPeer, cSent, tSent,
                   toClient, toTarget, edge, fdState, closeCalls, chVars>>

\* the client sends its next tunnel byte: after it has read the success line,
\* or behind its request without waiting for the reply
ClientSendData ==
    /\ prog = "hb"
    /\ \/ hbPc = "relay" /\ StartsWith(toClient, RESPONSE)
       \/ hbPc \in {"handle", "auth", "connect"} /\ reqSent
    /\ cliPeer = "open" /\ cSent < MaxBytes
    /\ cSent' = cSent + 1
    /\ cliRecvQ' = cliRecvQ \o SubSeq(ClientStream, cSent + 1, cSent + 1)
    /\ edge' = edge \cup ({ClientFd} \cap Registered)
    /\ UNCHANGED <<notHB, PASS, request, reqSent, tgtRecvQ, cliPeer, tgtPeer, tSent,
                   toClient, toTarget, fdState, closeCalls, chVars>>

\* the upstream sends its next tunnel byte
TargetSendData ==
    /\ prog = "hb" /\ hbPc = "relay"
    /\ tgtPeer = "open" /\ tSent < MaxBytes
    /\ tSent' = tSent + 1
    /\ tgtRecvQ' = tgtRecvQ \o SubSeq(TargetStream, tSent + 1, tSent + 1)
    /\ edge' = edge \cup ({TargetFd} \cap Registered)
    /\ UNCHANGED <<notHB, PASS, request, reqSent, cliRecvQ, cliPeer, tgtPeer, cSent,
                   toClient, toTarget, fdState, closeCalls, chVars>>

\* the client closes (FIN) or resets its end
ClientHangup ==
    /\ prog = "hb" /\ hbPc \in {"handle", "auth", "connect", "relay"}
    /\ cliPeer = "open"
    /\ cliPeer' \in {"fin", "rst"}
    /\ edge' = edge \cup ({ClientFd} \cap Registered)
    /\ UNCHANGED <<notHB, PASS, request, reqSent, cliRecvQ, tgtRecvQ, tgtPeer, cSent,
                   tSent, toClient, toTarget, fdState, closeCalls, chVars>>

\* the upstream closes or resets its end; a connect still in progress
\* completes or fails
TargetHangup ==
    /\ prog = "hb" /\ hbPc = "relay"
    /\ \/ tgtPeer = "open" /\ tgtPeer' \in {"fin", "rst"}
       \/ tgtPeer = "connecting" /\ tgtPeer' = "rst"
    /\ edge' = edge \cup ({TargetFd} \cap Registered)
    /\ UNCHANGED <<notHB, PASS, request, reqSent, cliRecvQ, tgtRecvQ, cliPeer, cSent,
                   tSent, toClient, toTarget, fdState, closeCalls, chVars>>

TargetConnected ==
    /\ prog = "hb" /\ hbPc = "relay"
    /\ tgtPeer = "connecting"
    /\ tgtPeer' = "open"
    /\ UNCHANGED <<notHB, PASS, request, reqSent, cliRecvQ, tgtRecvQ, cliPeer, cSent,
                   tSent, toClient, toTarget, edge, fdState, closeCalls, chVars>>

----------------------------------------------------------------------------
(* proxysocks.cpp: ConnectionHandler::handle() and the worker's delete *)

\* handle(), lines 180-192: setNonBlocking(clientSock) and the initial recv
HandleRecv ==
    /\ prog = "hb" /\ hbPc = "handle"
    /\ \E nonBlocking \in BOOLEAN :
         LET len == IF cliPeer = "rst" THEN 0 - 1
                    ELSE IF cliRecvQ = "" THEN (IF cliPeer = "fin" THEN 0 ELSE 0 - 1)
                    ELSE Min(Len(cliRecvQ), BUFLEN - 1)
         IN  IF ~nonBlocking
             THEN /\ hbPc' = "returned" /\ exitWhy' = "setNonBlocking"
                  /\ UNCHANGED <<clientBuffer, cliRecvQ>>
             ELSE IF len <= 0
             THEN /\ hbPc' = "returned" /\ exitWhy' = "recv"
                  /\ UNCHANGED <<clientBuffer, cliRecvQ>>
             ELSE /\ hbPc' = "auth" /\ exitWhy' = exitWhy
                  /\ clientBuffer' = SubstrN(cliRecvQ, 0, len)
                  /\ cliRecvQ' = Substr(cliRecvQ, len)
    /\ UNCHANGED <<notHB, PASS, request, reqSent, tgtRecvQ, cliPeer, tgtPeer, cSent,
                   tSent, toClient, toTarget, edge, fdState, closeCalls,
                   clientClosed, targetClosed, targetSock, epollFd, count>>

\* handle(), lines 194-213: the headers, the extra X-Split read, and the
\* authorization with its rejection reply
HandleAuth ==
    /\ prog = "hb" /\ hbPc = "auth"
    /\ LET split == findHeader(clientBuffer, "X-Split")
       IN  cliRecvQ' = IF split # "" THEN Substr(cliRecvQ, Min(Len(cliRecvQ), BUFLEN))
                       ELSE cliRecvQ
    /\ IF ~Allowed(PASS, clientBuffer)
       THEN /\ toClient' = SendTo(cliPeer, toClient, ErrResp(PASS, clientBuffer))
            /\ hbPc' = "returned" /\ exitWhy' = "denied"
       ELSE /\ toClient' = toClient
            /\ hbPc' = "connect" /\ exitWhy' = exitWhy
    /\ UNCHANGED <<notHB, PASS, request, reqSent, tgtRecvQ, cliPeer, tgtPeer, cSent,
                   tSent, toTarget, edge, fdState, closeCalls, clientBuffer,
                   clientClosed, targetClosed, targetSock, epollFd, count>>

\* what connectTarget() can run into, lines 132-171
ConnectResults ==
    {"getaddrinfo", "socket", "setNonBlocking", "connect", "EINPROGRESS", "connected"}
\* epoll_create1 / epoll_ctl, lines 228-245
EpollResults == {"ok", "epoll_create1", "epoll_ctl"}

\* connectTarget(hostPort), lines 122-176: the handler after the call
connectTarget(h, r) ==
    CASE r = "getaddrinfo" -> h
      [] r = "socket" -> [h EXCEPT !.targetSock = InvalidFd]
      [] r \in {"setNonBlocking", "connect"} ->
            SysClose([h EXCEPT !.targetSock = TargetFd], TargetFd)
      [] OTHER ->
            [h EXCEPT !.targetSock = TargetFd, !.fdState[TargetFd] = "open",
                      !.targetClosed = FALSE]

\* handle(), lines 215-245: connectTarget, the 502 or 200 reply, the epoll set
HandleConnect ==
    /\ prog = "hb" /\ hbPc = "connect"
    /\ LET hostPort == HostPort(clientBuffer)
           colonPos == Find(hostPort, ":", 0)
       IN  IF colonPos # npos /\ StoiThrows(Substr(hostPort, colonPos + 1))
           THEN \* std::stoi throws; handle() catches it (lines 304-306)
                /\ hbPc' = "returned" /\ exitWhy' = "exception"
                /\ UNCHANGED <<toClient, tgtPeer, edge, fdState, closeCalls,
                               targetClosed, targetSock, epollFd, count, clientBuffer>>
           ELSE \E r \in ConnectResults, e \in EpollResults :
                LET h == connectTarget(Handler, r)
                    ok == r \in {"EINPROGRESS", "connected"}
                IN  /\ targetSock' = h.targetSock
                    /\ targetClosed' = h.targetClosed
                    /\ closeCalls' = h.closeCalls
                    /\ IF ~ok
                       THEN /\ toClient' = SendTo(cliPeer, toClient, BadGateway)
                            /\ hbPc' = "returned" /\ exitWhy' = "connectTarget"
                            /\ e = "ok"
                            /\ fdState' = h.fdState
                            /\ UNCHANGED <<tgtPeer, edge, epollFd, count, clientBuffer>>
                       ELSE /\ toClient' = AcceptReply(cliPeer, toClient)
                            /\ tgtPeer' = IF r = "connected" THEN "open" ELSE "connecting"
                            /\ count' = 0
                            /\ epollFd' = IF e = "epoll_create1" THEN InvalidFd ELSE EpollFd
                            /\ fdState' = IF e = "epoll_create1" THEN h.fdState
                                          ELSE [h.fdState EXCEPT ![EpollFd] = "open"]
                            /\ IF e = "ok"
                               THEN /\ hbPc' = "relay" /\ exitWhy' = exitWhy
                                    \* clientBuffer and hostPort are not read again
                                    /\ clientBuffer' = ""
                                    \* a descriptor that is readable when it is
                                    \* added is reported by the next epoll_wait
                                    /\ edge' = IF cliRecvQ # "" \/ cliPeer # "open"
                                               THEN {ClientFd} ELSE {}
                               ELSE /\ hbPc' = "returned" /\ exitWhy' = e
                                    /\ edge' = edge
                                    /\ clientBuffer' = clientBuffer
    /\ UNCHANGED <<notHB, PASS, request, reqSent, cliRecvQ, tgtRecvQ, cliPeer, cSent,
                   tSent, toTarget, clientClosed>>

\* what splice() returns: bytes moved, 0, -1 with EAGAIN, -1 with another errno
SpliceResults == {"moved", "zero", "EAGAIN", "error"}

\* One pass of the for loop body, lines 267-301, for an event on fd.
\* st holds the two receive queues, the two output streams and whether the
\* pass ended in break; o is what splice returns, n the bytes it moved,
\* sent what the fallback send accepted (0 or less: it failed).
RelayEvent(st, fd, o, n, sent) ==
    LET fromClient == fd = ClientFd
        q == IF fromClient THEN st.cq ELSE st.tq
        srcPeer == IF fromClient THEN cliPeer ELSE tgtPeer
        put(taken, written) ==
            IF fromClient
            THEN [st EXCEPT !.cq = Substr(q, taken), !.tt = @ \o SubstrN(q, 0, written)]
            ELSE [st EXCEPT !.tq = Substr(q, taken), !.tc = @ \o SubstrN(q, 0, written)]
        len == Min(Len(q), BUFLEN)
    IN  IF srcPeer = "rst" THEN [st EXCEPT !.brk = TRUE]    \* EPOLLERR | EPOLLHUP
        ELSE IF o = "moved" THEN put(n, n)
        ELSE IF o = "EAGAIN"
             THEN IF len <= 0 THEN [st EXCEPT !.brk = TRUE]
                  ELSE IF sent <= 0 THEN [put(len, 0) EXCEPT !.brk = TRUE]
                  ELSE put(len, sent)
        ELSE [st EXCEPT !.brk = TRUE]

\* the results the kernel can give for an event on fd in st
Results(st, fd) ==
    LET fromClient == fd = ClientFd
        q == IF fromClient THEN st.cq ELSE st.tq
        srcPeer == IF fromClient THEN cliPeer ELSE tgtPeer
        dstPeer == IF fromClient THEN tgtPeer ELSE cliPeer
        room == IF Writable(dstPeer) THEN Min(Len(q), BUFLEN) ELSE 0
        failed == [o |-> "error", n |-> 0, sent |-> 0]
    IN  IF srcPeer = "rst" THEN {failed}
        ELSE {failed}
             \cup {[o |-> "moved", n |-> k, sent |-> 0] : k \in 1..room}
             \cup {[o |-> "EAGAIN", n |-> 0, sent |-> k] : k \in 0..room}
             \cup (IF Len(q) = 0 /\ srcPeer = "fin"
                   THEN {[o |-> "zero", n |-> 0, sent |-> 0]} ELSE {})

\* the orders in which epoll_wait can report the ready descriptors
Orders(S) == {sq \in UNION {[1..k -> S] : k \in 1..2} :
                 Len(sq) = Cardinality(S) /\ {sq[i] : i \in 1..Len(sq)} = S}

\* lines 250-252: epoll_wait is interrupted, the loop continues
EpollInterrupted ==
    /\ prog = "hb" /\ hbPc = "relay"
    /\ UNCHANGED <<notHB, hbVars>>

\* lines 251-255: epoll_wait fails, the loop ends
EpollFailed ==
    /\ prog = "hb" /\ hbPc = "relay"
    /\ hbPc' = "returned" /\ exitWhy' = "epoll_wait"
    /\ count' = 0
    /\ UNCHANGED <<notHB, envVars, clientBuffer, clientClosed, targetClosed,
                   targetSock, epollFd>>

\* lines 256-263: nothing was ready for a second
EpollTimeout ==
    /\ prog = "hb" /\ hbPc = "relay"
    /\ edge = {}
    /\ IF count + 1 >= TIMEOUT
       THEN hbPc' = "returned" /\ exitWhy' = "timeout" /\ count' = 0
       ELSE hbPc' = hbPc /\ exitWhy' = exitWhy /\ count' = count + 1
    /\ UNCHANGED <<notHB, envVars, clientBuffer, clientClosed, targetClosed,
                   targetSock, epollFd>>

\* lines 265-302: the ready descriptors are served in the order reported
EpollEvents ==
    /\ prog = "hb" /\ hbPc = "relay"
    /\ edge # {}
    /\ \E events \in Orders(edge) :
         LET st0 == [cq |-> cliRecvQ, tq |-> tgtRecvQ, tc |-> toClient,
                     tt |-> toTarget, brk |-> FALSE]
         IN  \E r1 \in Results(st0, events[1]) :
               LET st1 == RelayEvent(st0, events[1], r1.o, r1.n, r1.sent)
               IN  \E st2 \in (IF Len(events) = 2 /\ ~st1.brk
                                THEN {RelayEvent(st1, events[2], r2.o, r2.n, r2.sent) :
                                         r2 \in Results(st1, events[2])}
                                ELSE {st1}) :
                     /\ cliRecvQ' = st2.cq /\ tgtRecvQ' = st2.tq
                     /\ toClient' = st2.tc /\ toTarget' = st2.tt
    /\ edge' = {}
    /\ count' = 0
    /\ UNCHANGED <<notHB, PASS, request, reqSent, cliPeer, tgtPeer, cSent, tSent,
                   fdState, closeCalls, hbPc, clientBuffer, clientClosed,
                   targetClosed, targetSock, epollFd, exitWhy>>

\* poolWorker(), line 327: handle() has returned, the handler is deleted
WorkerDelete ==
    /\ prog = "hb" /\ hbPc = "returned"
    /\ LET h == Destroy(Handler)
       IN  /\ clientClosed' = h.clientClosed
           /\ targetClosed' = h.targetClosed
           /\ fdState' = h.fdState
           /\ closeCalls' = h.closeCalls
    \* closing a socket discards what it had received
    /\ cliRecvQ' = "" /\ tgtRecvQ' = "" /\ edge' = {}
    /\ hbPc' = "deleted"
    /\ UNCHANGED <<notHB, PASS, request, reqSent, cliPeer, tgtPeer,
                   cSent, tSent, toClient, toTarget, clientBuffer,
                   targetSock, epollFd, count, exitWhy>>

NextHB ==
    \/ ClientSendRequest \/ ClientSendData \/ TargetSendData
    \/ ClientHangup \/ TargetHangup \/ TargetConnected
    \/ HandleRecv \/ HandleAuth \/ HandleConnect
    \/ EpollInterrupted \/ EpollFailed \/ EpollTimeout \/ EpollEvents
    \/ WorkerDelete

----------------------------------------------------------------------------
(* proxysocks.cpp: main(), signalHandler and poolWorker (lines 313-417) *)

\* main(), lines 366-387: the pool threads are started, the socket listens
InitPool ==
    /\ prog = "pool"
    /\ IdleHB /\ IdleS5
    /\ running = TRUE /\ mainPc = "loop" /\ mainSock = 0
    /\ taskQueue = << >> /\ taskMutex = 0
    /\ workers = [w \in Workers |-> [pc |-> "test", handler |-> 0]]
    /\ handlers = [c \in Conns |-> NoHandler]

\* connections accepted so far
Accepted == {c \in Conns : handlers[c].status # "none"}

\* ConnectionHandler::ConnectionHandler, lines 94-96, on an accepted socket
NewHandler ==
    [NoHandler EXCEPT !.status = "created", !.fdState[ClientFd] = "open"]

\* what handle() can leave of a handler h when it returns: nothing opened,
\* or connectTarget's effect, or that and the epoll descriptor
HandleOutcomes(h) ==
    {h} \cup {connectTarget(h, r) : r \in ConnectResults}
        \cup {[connectTarget(h, r) EXCEPT !.epollFd = EpollFd,
                                          !.fdState[EpollFd] = "open"] :
                  r \in {"EINPROGRESS", "connected"}}

\* taskCond.notify_one(): the pool threads after one of those blocked in
\* wait, if any, was woken
NotifyOne(ws) ==
    LET blocked == {w \in Workers : ws[w].pc = "blocked"}
    IN  IF blocked = {} THEN {ws}
        ELSE {[ws EXCEPT ![w].pc = "woken"] : w \in blocked}

\* taskCond.notify_all()
NotifyAll(ws) ==
    [w \in Workers |-> IF ws[w].pc = "blocked" THEN [ws[w] EXCEPT !.pc = "woken"]
                       ELSE ws[w]]

\* main(), line 389: the test of the accept loop
MainLoop ==
    /\ prog = "pool" /\ mainPc = "loop"
    /\ mainPc' = IF running THEN "accept" ELSE "closing"
    /\ UNCHANGED <<notPool, running, mainSock, taskQueue, taskMutex, workers, handlers>>

\* main(), lines 390-403: accept() returns a connection, its handler is made
MainAccept ==
    /\ prog = "pool" /\ mainPc = "accept"
    /\ Accepted # Conns
    /\ LET c == SetMin(Conns \ Accepted)
       IN  /\ mainSock' = c
           /\ handlers' = [handlers EXCEPT ![c] = NewHandler]
    /\ mainPc' = "enqueue"
    /\ UNCHANGED <<notPool, running, taskQueue, taskMutex, workers>>

\* main(), lines 393-397: accept() fails, with EINTR (a signal was caught
\* while it waited) or with a transient error such as ECONNABORTED
MainAcceptFails ==
    /\ prog = "pool" /\ mainPc = "accept"
    /\ \E errno \in {"EINTR", "ECONNABORTED"} :
         mainPc' = IF errno = "EINTR" \/ ~running THEN "closing" ELSE "loop"
    /\ UNCHANGED <<notPool, running, mainSock, taskQueue, taskMutex, workers, handlers>>

\* enqueueTask(), lines 332-336
enqueueTask ==
    /\ prog = "pool" /\ mainPc = "enqueue"
    /\ taskMutex = 0
    /\ taskQueue' = Append(taskQueue, mainSock)
    /\ handlers' = [handlers EXCEPT ![mainSock].status = "queued"]
    /\ workers' \in NotifyOne(workers)
    /\ mainSock' = 0
    /\ mainPc' = "loop"
    /\ UNCHANGED <<notPool, running, taskMutex>>

\* main(), line 407
MainCloseServer ==
    /\ prog = "pool" /\ mainPc = "closing"
    /\ mainPc' = "joining"
    /\ UNCHANGED <<notPool, running, mainSock, taskQueue, taskMutex, workers, handlers>>

\* main(), lines 410-416: every pool thread is joined, main returns
MainJoin ==
    /\ prog = "pool" /\ mainPc = "joining"
    /\ \A w \in Workers : workers[w].pc = "exited"
    /\ mainPc' = "returned"
    /\ UNCHANGED <<notPool, running, mainSock, taskQueue, taskMutex, workers, handlers>>

\* signalHandler(), lines 338-342; it does not take taskMutex
signalHandler ==
    /\ prog = "pool" /\ mainPc # "returned"
    /\ running' = FALSE
    /\ workers' = NotifyAll(workers)
    /\ UNCHANGED <<notPool, mainPc, mainSock, taskQueue, taskMutex, handlers>>

\* poolWorker(), line 319: the test of the loop
WorkerLoop(w) ==
    /\ prog = "pool" /\ workers[w].pc = "test"
    /\ workers' = [workers EXCEPT ![w].pc = IF running THEN "lock" ELSE "exited"]
    /\ UNCHANGED <<notPool, running, mainPc, mainSock, taskQueue, taskMutex, handlers>>

\* a worker that takes the front task and leaves it in the queue
WorkerWaitNoPop(w) ==
    /\ prog = "pool" /\ workers[w].pc \in {"lock", "woken"}
    /\ taskMutex = 0
    /\ IF taskQueue # << >>
       THEN /\ workers' = [workers EXCEPT ![w] = [pc |-> "handle", handler |-> Head(taskQueue)]]
            /\ handlers' = [handlers EXCEPT ![Head(taskQueue)].status = "handling"]
            /\ UNCHANGED <<taskQueue, taskMutex>>
       ELSE /\ workers' = [workers EXCEPT ![w].pc = IF ~running THEN "test" ELSE "blocking"]
            /\ taskMutex' = IF ~running THEN 0 ELSE w
            /\ UNCHANGED <<taskQueue, handlers>>
    /\ UNCHANGED <<notPool, running, mainPc, mainSock>>

\* poolWorker(), lines 320-325 and 329: taskMutex is taken (on entry, or by
\* a wait that was woken) and wait's predicate evaluated.  If it holds, the
\* front task, if any, is taken and the mutex released; the mutex protects
\* these steps, so they are one step here.  If not, the thread is about to
\* block, the mutex still held.
WorkerWait(w) ==
    /\ prog = "pool" /\ workers[w].pc \in {"lock", "woken"}
    /\ taskMutex = 0
    /\ IF taskQueue # << >>
       THEN /\ workers' = [workers EXCEPT ![w] = [pc |-> "handle", handler |-> Head(taskQueue)]]
            /\ taskQueue' = Tail(taskQueue)
            /\ handlers' = [handlers EXCEPT ![Head(taskQueue)].status = "handling"]
            /\ taskMutex' = 0
       ELSE /\ workers' = [workers EXCEPT ![w].pc = IF ~running THEN "test" ELSE "blocking"]
            /\ taskMutex' = IF ~running THEN 0 ELSE w
            /\ UNCHANGED <<taskQueue, handlers>>
    /\ UNCHANGED <<notPool, running, mainPc, mainSock>>

\* poolWorker(), line 321: wait releases the mutex and blocks
WorkerBlock(w) ==
    /\ prog = "pool" /\ workers[w].pc = "blocking"
    /\ taskMutex' = 0
    /\ workers' = [workers EXCEPT ![w].pc = "blocked"]
    /\ UNCHANGED <<notPool, running, mainPc, mainSock, taskQueue, handlers>>

\* poolWorker(), line 326: handler->handle() runs and returns
WorkerHandle(w) ==
    /\ prog = "pool" /\ workers[w].pc = "handle"
    /\ \E h \in HandleOutcomes(handlers[workers[w].handler]) :
         handlers' = [handlers EXCEPT ![workers[w].handler] =
                                         [h EXCEPT !.status = "handled"]]
    /\ workers' = [workers EXCEPT ![w].pc = "delete"]
    /\ UNCHANGED <<notPool, running, mainPc, mainSock, taskQueue, taskMutex>>

\* poolWorker(), line 327: delete handler
WorkerDeleteHandler(w) ==
    /\ prog = "pool" /\ workers[w].pc = "delete"
    /\ handlers' = [handlers EXCEPT ![workers[w].handler] =
                        [Destroy(@) EXCEPT !.status = "deleted"]]
    /\ workers' = [workers EXCEPT ![w] = [pc |-> "test", handler |-> 0]]
    /\ UNCHANGED <<notPool, running, mainPc, mainSock, taskQueue, taskMutex>>

NextPool ==
    \/ MainLoop \/ MainAccept \/ MainAcceptFails \/ enqueueTask
    \/ MainCloseServer \/ MainJoin
    \/ signalHandler
    \/ \E w \in Workers :
         \/ WorkerLoop(w) \/ WorkerWait(w) \/ WorkerBlock(w)
         \/ WorkerHandle(w) \/ WorkerDeleteHandler(w)

----------------------------------------------------------------------------
(* Specifications *)

Init == InitHB \/ InitS5 \/ InitPool
Next == NextHB \/ NextS5 \/ NextPool
Spec == Init /\ [][Next]_vars

SpecHB == InitHB /\ [][NextHB]_vars
SpecS5 == InitS5 /\ [][NextS5]_vars
SpecPool == InitPool /\ [][NextPool]_vars

\* One connection of either proxy, with the progress the schedulers give:
\* the worker thread keeps running handle() (epoll_wait returns within its
\* one-second timeout, ready descriptors are served, the handler is deleted
\* once handle() has returned), the steady_timer expires when its time has
\* passed, and io_context::run() runs the handlers that are queued.
InitConn == InitHB \/ InitS5
NextConn == NextHB \/ NextS5
FairSpec ==
    /\ InitConn /\ [][NextConn]_vars
    /\ WF_vars(EpollTimeout) /\ WF_vars(EpollEvents) /\ WF_vars(WorkerDelete)
    /\ WF_vars(TimerExpire) /\ WF_vars(OnTimeout)

\* A run of main() with the progress the scheduler gives its threads: a
\* pool thread that can take its next step takes it, taskMutex when free is
\* granted to one of the threads that wait for it, and main() goes on.
\* Nothing is assumed of the arrival of connections or signals.
FairPool ==
    /\ InitPool /\ [][NextPool]_vars
    /\ \A w \in Workers :
         /\ WF_vars(WorkerLoop(w)) /\ WF_vars(WorkerBlock(w))
         /\ WF_vars(WorkerHandle(w)) /\ WF_vars(WorkerDeleteHandler(w))
    /\ WF_vars(\E w \in Workers : WorkerWait(w))
    /\ WF_vars(MainLoop) /\ WF_vars(enqueueTask)
    /\ WF_vars(MainCloseServer) /\ WF_vars(MainJoin)

----------------------------------------------------------------------------
(* Properties *)

IsPrefix(a, b) == Len(a) <= Len(b) /\ SubSeq(b, 1, Len(a)) = a

\* HeaderBootstrap: what the relay has written to the client, after the
\* success line
HBFromTarget ==
    IF StartsWith(toClient, RESPONSE) THEN Substr(toClient, Len(RESPONSE)) ELSE ""
\* SOCKS5: what the relay has written to the client, after the method reply
\* (2 bytes) and the request reply (10 bytes)
S5FromRemote == SubSeq(session.toClient, 13, Len(session.toClient))

\* C1: round-trip byte fidelity of the relay.  In both proxies what has been
\* written to the upstream is a prefix of what the client sent and what has
\* been relayed to the client is a prefix of what the upstream sent; while
\* both ends are open, no byte taken from one socket is missing from the
\* other (HeaderBootstrap: a byte is either still unread or written).
C1_RelayFidelity ==
    /\ prog = "hb" =>
         /\ IsPrefix(toTarget, SubSeq(ClientStream, 1, cSent))
         /\ IsPrefix(HBFromTarget, SubSeq(TargetStream, 1, tSent))
         /\ (hbPc = "relay" /\ cliPeer = "open" /\ tgtPeer = "open") =>
               /\ toTarget \o cliRecvQ = SubSeq(ClientStream, 1, cSent)
               /\ HBFromTarget \o tgtRecvQ = SubSeq(TargetStream, 1, tSent)
    /\ prog = "s5" =>
         /\ IsPrefix(session.toRemote, SubSeq(ClientBytes, 1, cNum))
         /\ IsPrefix(S5FromRemote, SubSeq(RemoteBytes, 1, rNum))

\* HeaderBootstrap: handle() has read the request and decided on it
Decided == prog = "hb" /\ clientBuffer # "" /\ hbPc # "auth"
\* the request carries the configured, non-empty passphrase
PassMatches == PASS # "" /\ findHeader(clientBuffer, "X-Pass") = PASS
\* the value of the request's X-Real-Host header ("" if there is none)
RealHost == findHeader(clientBuffer, "X-Real-Host")
\* handle() rejected the request
Denied == exitWhy = "denied"

\* C2: a request whose X-Pass equals a configured non-empty passphrase is
\* authorized whatever its X-Real-Host: handle() goes on to connectTarget,
\* and neither the 400 nor the 403 line is sent.
C2_MatchingPassAuthorized ==
    (Decided /\ PassMatches) =>
        /\ ~Denied
        /\ toClient \notin {WrongPass, Forbidden}
        /\ hbPc = "connect" \/ exitWhy \in {"connectTarget", "exception",
                                            "epoll_create1", "epoll_ctl"}

\* C2 happens: the passphrase matches, the target is not prefixed by the
\* bind address, and handle() is about to call connectTarget
C2_Witness ==
    /\ Decided /\ PassMatches /\ hbPc = "connect"
    /\ RealHost = "10.0.0.1:22"

C4_RejectionReply ==
    (Decided /\ Denied) =>
        LET passwd == findHeader(clientBuffer, "X-Pass")
            line == IF passwd # "" /\ passwd # PASS THEN WrongPass ELSE Forbidden
        IN  /\ toClient = (IF cliPeer = "rst" THEN "" ELSE line)
            /\ fdState[TargetFd] = "none"
            /\ hbPc = "deleted" => fdState[ClientFd] = "closed"

\* C5: once a negotiation was accepted (the upstream was connected to), what
\* the client has been sent begins with the success line: no rejection line
\* and no relayed byte precedes it.
C5_SuccessLineFirst ==
    (prog = "hb" /\ tgtPeer # "none") =>
        /\ toClient = "" \/ StartsWith(toClient, RESPONSE)
        /\ toClient = "" => cliPeer = "rst"

\* C5 happens: a byte of the upstream was relayed to the client, after the
\* success line
C5_Witness ==
    /\ prog = "hb" /\ tSent > 0
    /\ toClient = RESPONSE \o SubSeq(TargetStream, 1, 1)

\* SOCKS5: the client's greeting is complete, of version 5, and its method
\* list does not contain no-authentication
GreetingWithoutNoAuth ==
    /\ prog = "s5" /\ Len(script) >= 2 /\ script[1] = 5
    /\ Len(script) >= 2 + script[2]
    /\ \A i \in 3..(2 + script[2]) : script[i] # 0
S5BothClosed ==
    session.client_socket_ = "closed" /\ session.remote_socket_ = "closed"

\* C6: a greeting whose method list lacks no-authentication (the empty list
\* included) gets the two bytes 5, 255 and nothing else, read_request is never
\* issued, and once the reply's handler has run both sockets are closed.
C6_NoAuthMissingRejected ==
    GreetingWithoutNoAuth =>
        /\ session.toClient \in {<< >>, <<5, 255>>}
        /\ session.ops["cread"].k \in {"", "handshake", "methods"}
        /\ session.ops["creply"].k \in {"", "method_rejected"}
        /\ (session.ops["creply"].k = "method_rejected" /\ cPeer # "rst"
              /\ session.ops["creply"].ec = "ok") => session.toClient = <<5, 255>>
        /\ (session.toClient = <<5, 255>> /\ session.ops["creply"] = NoOp)
              => S5BothClosed

\* C6 happens: an empty method list was answered 5, 255 and the session
\* torn down
C6_Witness ==
    /\ GreetingWithoutNoAuth /\ script[2] = 0
    /\ session.toClient = <<5, 255>> /\ session.ops["creply"] = NoOp
    /\ S5BothClosed

\* SOCKS5: the client's request is a CONNECT to an IPv4 address
IPv4Request ==
    /\ prog = "s5" /\ Len(script) = 13
    /\ SubSeq(script, 4, 7) = <<5, 1, 0, 1>>

\* C7: for an IPv4 request with address bytes a, b, c, d and port bytes p0,
\* p1, connect_remote is called with "a.b.c.d" and 256 * p0 + p1, on a host
\* of either byte order.
C7_IPv4Parsed ==
    (IPv4Request /\ session.ops["resolve"].st # "idle") =>
        /\ session.dest_addr =
              ToString(script[8]) \o "." \o ToString(script[9]) \o "."
                 \o ToString(script[10]) \o "." \o ToString(script[11])
        /\ session.dest_port = 256 * script[12] + script[13]
        /\ session.dest_port <= 65535

HBBothClosed == fdState[ClientFd] = "closed" /\ fdState[TargetFd] = "closed"
\* SOCKS5: forward_data has armed the forwarding timer
S5Forwarding == prog = "s5" /\ session.timer_.secs = 300

\* C8: a relay cannot outlive its idle window.  HeaderBootstrap: the relay
\* never stands with TIMEOUT empty waits counted, a handler whose relay ended
\* by timeout has both sockets closed once deleted, and every relay (the
\* peers send finitely many bytes) comes to that end.  SOCKS5: every session
\* that is forwarding comes to have both sockets closed.
C8_IdleRelayTimesOut ==
    /\ []((prog = "hb" /\ hbPc = "relay") => count < TIMEOUT)
    /\ []((prog = "hb" /\ hbPc = "deleted" /\ exitWhy = "timeout") => HBBothClosed)
    /\ (prog = "hb" /\ hbPc = "relay") ~> (hbPc = "deleted" /\ HBBothClosed)
    /\ S5Forwarding ~> S5BothClosed

\* C8 happens: a relay ended by timeout, the handler was deleted
C8_Witness ==
    /\ prog = "hb" /\ hbPc = "deleted" /\ exitWhy = "timeout"
    /\ HBBothClosed

\* C9: teardown is idempotent.  In every state, close() twice leaves what
\* close() once leaves (fields, descriptors and the number of ::close calls),
\* so does close() followed by the destructor and the destructor followed by
\* close(); and handle_error twice leaves what handle_error once leaves.
C9_TeardownIdempotent ==
    /\ prog = "hb" =>
         /\ close(close(Handler)) = close(Handler)
         /\ Destroy(close(Handler)) = Destroy(Handler)
         /\ close(Destroy(Handler)) = Destroy(Handler)
    /\ prog = "s5" =>
         handle_error(handle_error(session)) = handle_error(session)
    /\ prog = "pool" =>
         \A c \in Conns : close(close(handlers[c])) = close(handlers[c])

\* C9 happens: a handler that had both sockets open was torn down
C9_Witness ==
    /\ prog = "hb" /\ hbPc = "deleted"
    /\ closeCalls[ClientFd] = 1 /\ closeCalls[TargetFd] = 1
    /\ clientClosed /\ targetClosed

\* C10: every socket handle is closed exactly once.  No descriptor of a
\* connection is closed twice, and when main() has returned every accepted
\* connection has had its client socket, and its upstream socket if one was
\* opened, closed.
C10_ClosedExactlyOnce ==
    prog = "pool" =>
        /\ \A c \in Conns : \A f \in Fds : handlers[c].closeCalls[f] <= 1
        /\ mainPc = "returned" =>
             \A c \in Accepted :
                /\ handlers[c].closeCalls[ClientFd] = 1
                /\ handlers[c].fdState[TargetFd] # "none" =>
                      handlers[c].closeCalls[TargetFd] = 1

\* SOCKS5: the client's script is an accepted greeting followed by a complete
\* CONNECT request of a supported address type
ConnectRequest ==
    /\ prog = "s5" /\ Len(script) > 7
    /\ SubSeq(script, 1, 3) = AcceptedGreeting
    /\ script[4] = 5 /\ script[5] = 1 /\ script[7] \in {1, 3, 4}
\* SOCKS5: the session was torn down while remote_socket_ is open, which
\* handle_error never leaves
S5OpenedAfterTeardown ==
    session.remote_socket_ = "open" /\ session.client_socket_ = "closed"

\* C11: a connection has no upstream socket unless its negotiation got that
\* far.  HeaderBootstrap: targetSock exists only if the request was authorized
\* and handle() reached connectTarget.  SOCKS5: remote_socket_ was opened only
\* if the method was accepted and a CONNECT request with its address and port
\* was read in full; a negotiation that was torn down does not open it.
C11_NoUpstreamBeforeNegotiation ==
    /\ prog = "hb" =>
         /\ (fdState[TargetFd] # "none" \/ targetSock # InvalidFd) =>
               /\ hbPc \in {"relay", "returned", "deleted"}
               /\ exitWhy \notin {"setNonBlocking", "recv", "denied", "exception"}
               /\ clientBuffer # "" => Allowed(PASS, clientBuffer)
         /\ Denied => fdState[TargetFd] = "none" /\ targetSock = InvalidFd
    /\ prog = "s5" =>
         /\ session.opens["remote"] > 0 =>
               /\ ConnectRequest /\ sPos = Len(script)
               /\ IsPrefix(<<5, 0>>, session.toClient)
         /\ ~S5OpenedAfterTeardown

\* the pool threads that hold connection c, and its places in the queue
Owners(c) == {w \in Workers : workers[w].handler = c}
QueuePlaces(c) == {i \in 1..Len(taskQueue) : taskQueue[i] = c}
\* how far a handler has got
StatusRank(st) ==
    CASE st = "none" -> 0 [] st = "created" -> 1 [] st = "queued" -> 2
      [] st = "handling" -> 3 [] st = "handled" -> 4 [] st = "deleted" -> 5

\* C12: a connection has one owner at a time.  A handler is in the queue at
\* most once and only while it waits; once dequeued it is held by exactly one
\* pool thread, which runs handle() on it and deletes it; a handler never goes
\* back to an earlier stage, so handle() runs on it at most once and it is
\* deleted at most once.
C12_SingleOwner ==
    /\ [](prog = "pool" =>
            \A c \in Conns :
               /\ Cardinality(Owners(c)) <= 1
               /\ Cardinality(QueuePlaces(c)) <= 1
               /\ QueuePlaces(c) # {} <=> handlers[c].status = "queued"
               /\ Owners(c) # {} <=> handlers[c].status \in {"handling", "handled"}
               /\ \A w \in Owners(c) :
                     workers[w].pc = (IF handlers[c].status = "handling"
                                      THEN "handle" ELSE "delete"))
    /\ [][prog = "pool" =>
            \A c \in Conns :
               /\ StatusRank(handlers'[c].status) >= StatusRank(handlers[c].status)
               /\ StatusRank(handlers'[c].status) <= StatusRank(handlers[c].status) + 1
               /\ handlers[c].status = "handled" =>
                     (handlers'[c] # handlers[c] =>
                        \E w \in Owners(c) : workers[w].pc = "delete" /\ workers'[w].pc = "test")]_vars

\* C12 happens: two pool threads work at the same time, on different
\* connections, one running handle() and the other deleting
C12_Witness ==
    /\ prog = "pool"
    /\ \E w1, w2 \in Workers :
         /\ workers[w1].pc = "handle" /\ workers[w2].pc = "delete"
         /\ workers[w1].handler # workers[w2].handler

\* SOCKS5: the handlers of the relay (lines 255-277)
RelayHandlers == {"from_client", "from_remote", "to_remote", "to_client"}
\* SOCKS5: handle_error has run
S5TornDown == prog = "s5" /\ session.closes["client"] > 0
\* SOCKS5: this step initiates an asynchronous operation on slot x
Initiated(x) ==
    /\ session'.ops[x].st # "idle"
    /\ session.ops[x].st = "idle" \/ session'.ops[x].k # session.ops[x].k

\* C13: negotiation, then relay, then teardown.  The relay runs only after
\* the negotiation succeeded (HeaderBootstrap: authorized, upstream connected
\* to, success line sent; SOCKS5: CONNECT request read, backend connected to,
\* forward_data called).  After teardown nothing more happens on the
\* connection: a deleted ConnectionHandler is left alone, and a Session on
\* which handle_error has run initiates no further operation, not even from
\* a handler that was queued when handle_error ran.
C13_PhasesInOrder ==
    /\ []((prog = "hb" /\ hbPc = "relay") =>
             /\ tgtPeer # "none" /\ fdState[TargetFd] = "open"
             /\ fdState[ClientFd] = "open"
             /\ StartsWith(toClient, RESPONSE) \/ cliPeer = "rst")
    /\ []((prog = "s5" /\ \E x \in Slots : session.ops[x].k \in RelayHandlers) =>
             /\ ConnectRequest /\ rPeer # "none"
             /\ session.opens["remote"] > 0
             /\ session.timer_.secs = 300)
    /\ [][(prog = "hb" /\ hbPc = "deleted") =>
             UNCHANGED <<chVars, toClient, toTarget, fdState, closeCalls>>]_vars
    /\ [][S5TornDown => \A x \in Slots : ~Initiated(x)]_vars

\* HeaderBootstrap: the request was authorized and the upstream could not be
\* connected to: connectTarget returned false, or threw on the port
ConnectorFailed ==
    prog = "hb" /\ exitWhy \in {"connectTarget", "exception"}

\* C14: an authorized request whose upstream cannot be established, whatever
\* the cause (an unparsable port included), is answered with the 502 line and
\* nothing else, in particular not the success line; the handler is then
\* deleted with the client socket closed and no upstream socket left open.
C14_ConnectorFailure502 ==
    ConnectorFailed =>
        /\ toClient = (IF cliPeer = "rst" THEN "" ELSE BadGateway)
        /\ fdState[TargetFd] # "open"
        /\ hbPc = "deleted" => fdState[ClientFd] = "closed"

\* SOCKS5: the method was accepted and the request's first four bytes sent
RequestSent ==
    /\ prog = "s5" /\ Len(script) >= 7
    /\ SubSeq(script, 1, 3) = AcceptedGreeting
\* the request is not a version 5 CONNECT / is one with an unknown address type
BadCommand == RequestSent /\ (script[4] # 5 \/ script[5] # 1)
BadAddressType == RequestSent /\ ~BadCommand /\ script[7] \notin {1, 3, 4}
\* what the client was sent after the two bytes of the method reply
ReplyPart == SubSeq(session.toClient, 3, Len(session.toClient))
\* the reply of a failure: code rep, IPv4 0.0.0.0, port 0
FailureReply(rep) == <<5, rep, 0, 1, 0, 0, 0, 0, 0, 0>>
\* send_reply was called with a failure code
S5Rejected ==
    \/ session.ops["creply"].k = "reply" /\ session.ops["creply"].n # 0
    \/ Len(ReplyPart) >= 2 /\ ReplyPart[2] # 0

\* C15: request rejection.  A request that is not a CONNECT is answered with
\* code 7, a CONNECT with an unsupported address type with code 8, a failed
\* resolve or connect with code 1, each as the reply 5, code, 0, 1, 0.0.0.0,
\* port 0 and nothing after it; a rejected session starts no relay, is never
\* sent the success code, and has both sockets closed once the reply's
\* handler has run.
C15_RequestRejected ==
    /\ [](prog = "s5" =>
            LET op == session.ops["creply"]
            IN  /\ BadCommand =>
                     /\ ReplyPart \in {<< >>, FailureReply(7)}
                     /\ op.k = "reply" => op.n = 7
                /\ BadAddressType =>
                     /\ ReplyPart \in {<< >>, FailureReply(8)}
                     /\ op.k = "reply" => op.n = 8
                /\ (op.k = "reply" /\ op.ec = "ok") =>
                     IsPrefix(SubSeq(FailureReply(op.n), 1, 4), ReplyPart)
                /\ S5Rejected =>
                     /\ \A x \in Slots : session.ops[x].k \notin RelayHandlers
                     /\ session.timer_.secs # 300
                     /\ ReplyPart = << >> \/ \E rep \in {1, 7, 8} : ReplyPart = FailureReply(rep)
                     /\ (ReplyPart # << >> /\ op = NoOp) => S5BothClosed)
    /\ [][(prog = "s5" /\ \E x \in {"resolve", "connect"} :
              /\ session.ops[x].st = "done" /\ session.ops[x].ec # "ok"
              /\ session'.ops[x] = NoOp)
            => /\ session'.ops["creply"].k = "reply"
               /\ session'.ops["creply"].n = 1
               /\ session'.ops["creply"].ec = "ok" =>
                     session'.toClient = session.toClient \o FailureReply(1)]_vars

\* C15 happens: a CONNECT with an unknown address type was answered with
\* code 8 and the session torn down
C15_Witness ==
    /\ BadAddressType /\ ReplyPart = FailureReply(8)
    /\ session.ops["creply"] = NoOp /\ S5BothClosed

\* SOCKS5: the handlers of the reads of the negotiation (lines 109-196)
NegotiationReads ==
    {"handshake", "methods", "request", "ipv4", "domain_length", "domain",
     "ipv6", "port"}
\* the negotiation bytes the session has taken from client_socket_
Consumed == sPos - Len(cIn)
\* this step runs the handler of a negotiation read that failed, or that
\* read a version other than 5 in the greeting
FailedReadHandled ==
    LET op == session.ops["cread"]
    IN  /\ prog = "s5" /\ op.st = "done" /\ op.k \in NegotiationReads
        /\ session'.ops["cread"] # op
        /\ op.ec # "ok" \/ (op.k = "handshake" /\ session.buffer_[1] # 5)

\* C16: the reads of the negotiation are exact-length and a failed one ends
\* the session.  A read whose handler is given success has stored exactly the
\* bytes asked for, the next ones of the client's stream; the method reply is
\* written only after the whole greeting was read and a request reply only
\* after the request's first four bytes.  The handler of a read that failed
\* (short read, reset, abort) or that found a version other than 5 writes
\* nothing, starts nothing and leaves both sockets closed and the timer
\* cancelled; nothing is written to the client once its socket is closed.
C16_ExactReadsOrAbort ==
    /\ [](prog = "s5" =>
            LET op == session.ops["cread"]
            IN  /\ (op.st = "done" /\ op.ec = "ok" /\ op.k \in NegotiationReads) =>
                     /\ Consumed >= op.n
                     /\ BufferBytes(session.buffer_, op.n)
                           = SubSeq(script, Consumed - op.n + 1, Consumed)
                /\ session.toClient # << >> =>
                     Consumed >= 2 /\ Consumed >= 2 + script[2]
                /\ ReplyPart # << >> => Consumed >= 7)
    /\ [][FailedReadHandled =>
            /\ session'.toClient = session.toClient
            /\ session'.client_socket_ = "closed"
            /\ session'.remote_socket_ = "closed"
            /\ ~session'.timer_.waiting
            /\ \A x \in Slots : ~Initiated(x)]_vars
    /\ [][(prog = "s5" /\ session.client_socket_ = "closed") =>
            session'.toClient = session.toClient]_vars

\* C16 happens: the client closed before its request was complete, the read
\* that was outstanding has failed and its handler has run; the session is
\* torn down with nothing but the method reply written
C16_Witness ==
    /\ prog = "s5" /\ cPeer = "fin" /\ sPos < Len(script)
    /\ session.toClient = <<5, 0>>
    /\ session.ops["cread"] = NoOp
    /\ S5BothClosed

\* SOCKS5: the client was sent the reply with the success code
S5SuccessSent == Len(ReplyPart) >= 2 /\ ReplyPart[1] = 5 /\ ReplyPart[2] = 0

\* C17: the client is told of success only once the upstream connection is
\* established.  HeaderBootstrap: the success line is sent in a step that
\* leaves the upstream connected, and is never in the client's stream while
\* the connect is still in progress.  SOCKS5: the reply with code 0 is sent
\* by the handler of a connect that completed without error.
C17_ReadyAfterConnect ==
    /\ []((prog = "hb" /\ StartsWith(toClient, RESPONSE)) =>
             tgtPeer \notin {"none", "connecting"})
    /\ [][(prog = "hb" /\ ~StartsWith(toClient, RESPONSE)
              /\ StartsWith(toClient', RESPONSE)) => tgtPeer' = "open"]_vars
    /\ [][(prog = "s5" /\ ~S5SuccessSent /\ S5SuccessSent') =>
             /\ session.ops["connect"].k = "connected"
             /\ session.ops["connect"].st = "done"
             /\ session.ops["connect"].ec = "ok"]_vars

\* C18: of a step's timer and its I/O completion, the first to run makes the
\* other a no-op.  An expiry that is queued belongs to the step the session
\* is in: it is not left over from a step whose handler has since cancelled
\* or re-armed the timer, nor from a session that handle_error has already
\* torn down; so the timer's handler never tears down a later step, and
\* never tears down a session a second time.
C18_TimerOrCompletion ==
    (prog = "s5" /\ session.timer_.fired > 0) =>
        /\ session.timer_.fired = 1
        /\ ~session.timer_.waiting
        /\ session.closes["client"] = 0

\* HeaderBootstrap: this step serves the ready descriptors (lines 265-302)
\* and one of them is at a terminal condition: its peer has reset the
\* connection (EPOLLERR | EPOLLHUP), or has closed it with nothing left to
\* read (splice or recv returns 0)
HBTerminalEventServed ==
    /\ prog = "hb" /\ hbPc = "relay" /\ edge # {} /\ edge' = {}
    /\ \/ ClientFd \in edge /\ (cliPeer = "rst" \/ (cliPeer = "fin" /\ cliRecvQ = ""))
       \/ TargetFd \in edge /\ (tgtPeer = "rst" \/ (tgtPeer = "fin" /\ tgtRecvQ = ""))
\* SOCKS5: this step runs the handler of a relay operation that failed
S5RelayFailureHandled ==
    /\ prog = "s5"
    /\ \E x \in Slots :
         /\ session.ops[x].st = "done" /\ session.ops[x].k \in RelayHandlers
         /\ session.ops[x].ec # "ok"
         /\ session'.ops[x] # session.ops[x]

\* C19: every terminal condition of the relay ends it.  HeaderBootstrap: the
\* pass of the relay loop that meets an end of stream, a reset or a failed
\* transfer is the last one: handle() returns, without waiting for the idle
\* timeout.  SOCKS5: the handler of a relay read or write that ended in an
\* error or end of stream leaves both sockets closed.
C19_TerminalEndsRelay ==
    /\ [][HBTerminalEventServed => hbPc' = "returned"]_vars
    /\ [][S5RelayFailureHandled =>
            session'.client_socket_ = "closed" /\ session'.remote_socket_ = "closed"]_vars

\* SOCKS5: the reply of a success: code 0, the address and port
\* remote_socket_ is bound to
SuccessReply == <<5, 0, 0, 1>> \o LocalEndpoint
\* SOCKS5: this step performs a relayed write to the client
RelayedToClient ==
    /\ prog = "s5"
    /\ session.ops["crelay"].st = "waiting" /\ session'.ops["crelay"].st = "done"
    /\ session'.toClient # session.toClient

\* C20: the relay follows the succeeded reply.  A success reply is in the
\* client's stream whole, right after the method reply; a byte relayed from
\* the backend is written to the client only when that reply is already
\* there, and goes after it, whichever of the reply's handler and the first
\* read from the backend completes first.
C20_ReplyBeforeRelay ==
    /\ []((prog = "s5" /\ S5SuccessSent) =>
             /\ SubSeq(session.toClient, 1, 2) = <<5, 0>>
             /\ IsPrefix(SuccessReply, ReplyPart))
    /\ [][RelayedToClient =>
             /\ IsPrefix(SuccessReply, ReplyPart)
             /\ IsPrefix(session.toClient, session'.toClient)
             /\ Len(session.toClient) >= 2 + Len(SuccessReply)]_vars

\* C20 happens: the backend's first byte was relayed to the client while the
\* handler of the success reply had not run yet
C20_Witness ==
    /\ prog = "s5" /\ session.ops["creply"].k = "reply"
    /\ session.ops["creply"].st = "done"
    /\ ReplyPart = Append(SuccessReply, RemoteBytes[1])

\* the pool threads blocked in taskCond.wait
BlockedWorkers == {w \in Workers : workers[w].pc = "blocked"}

\* C21: the shutdown signal reaches every wait on the task queue.  Once
\* signalHandler has set running to false no pool thread is blocked in
\* taskCond.wait: those that waited were woken, and one that was about to
\* wait does not block; so when main() joins the pool after the signal, no
\* thread it waits for is asleep on the condition variable.
C21_ShutdownWakesAll ==
    (prog = "pool" /\ ~running) => BlockedWorkers = {}

\* main() has left the accept loop
AcceptLoopLeft == mainPc \in {"closing", "joining", "returned"}

\* C22: the accept loop survives transient errors.  main() leaves the loop
\* only once shutdown was signalled: a failed accept, interrupted or not,
\* sends it back to accepting while running is true.
C22_AcceptLoopSurvives ==
    (prog = "pool" /\ AcceptLoopLeft) => ~running

\* a handler that a pool thread has taken from the queue
Dequeued(c) == handlers[c].status \in {"handling", "handled", "deleted"}
\* the connections a pool thread is running handle() on or is deleting
InService == {c \in Conns : handlers[c].status \in {"handling", "handled"}}
\* the pool threads that hold a handler
BusyWorkers == {w \in Workers : workers[w].handler # 0}

\* C23: FIFO admission by the pool.  Connections are enqueued in the order
\* accepted and dequeued in the order enqueued; a pool thread takes a task
\* only when it holds none, so the connections in service are as many as the
\* busy threads and at most THREAD_POOL_SIZE; and every connection that was
\* enqueued is in the end dequeued and handled.
C23_FifoAdmission ==
    /\ [](prog = "pool" =>
            /\ \A i, j \in 1..Len(taskQueue) : i < j => taskQueue[i] < taskQueue[j]
            /\ \A c, d \in Conns : (c < d /\ Dequeued(d)) => Dequeued(c)
            /\ Cardinality(InService) = Cardinality(BusyWorkers)
            /\ Cardinality(InService) <= THREAD_POOL_SIZE)
    /\ [][prog = "pool" =>
            \A w \in Workers :
               (workers'[w].handler # workers[w].handler /\ workers'[w].handler # 0)
                  => /\ workers[w].handler = 0
                     /\ taskQueue # << >> /\ workers'[w].handler = Head(taskQueue)
                     /\ taskQueue' = Tail(taskQueue)]_vars
    /\ \A c \in Conns :
          (prog = "pool" /\ handlers[c].status = "queued")
             ~> (handlers[c].status \in {"handled", "deleted"})

\* the tunnel bytes the client has sent so far
ClientSentStream == SubSeq(ClientStream, 1, cSent)

\* C24: the negotiation consumes its message and nothing more.
\* HeaderBootstrap: while handle() decides on the request and connects, every
\* tunnel byte the client has sent behind its header block is still unread on
\* the client socket, left for the relay (neither the initial recv nor the
\* extra X-Split recv has taken it).  SOCKS5: a read of the negotiation takes
\* from the client socket no more than the bytes it asked for.
C24_NegotiationConsumesItsMessage ==
    /\ []((prog = "hb" /\ hbPc \in {"auth", "connect"}) =>
             cliRecvQ = ClientSentStream)
    /\ [][(prog = "s5" /\ session.ops["cread"].k \in NegotiationReads
              /\ Len(cIn') < Len(cIn)) =>
             Len(cIn) - Len(cIn') <= session.ops["cread"].n]_vars

\* SOCKS5: async_connect has been started on remote_socket_
UpstreamAttempted == prog = "s5" /\ session.opens["remote"] > 0

HBEventsServed == prog = "hb" /\ hbPc = "relay" /\ edge # {} /\ edge' = {}
\* HeaderBootstrap: this step ends the relay by timeout
HBTimedOut == prog = "hb" /\ hbPc = "relay" /\ hbPc' = "returned" /\ exitWhy' = "timeout"
\* SOCKS5: in this step the wait of the forwarding timer expires
S5ForwardingExpires ==
    /\ prog = "s5" /\ session.timer_.secs = 300
    /\ session.timer_.waiting /\ session'.timer_.fired > session.timer_.fired

\* C26: the timeout ends a relay only after a full idle window.
\* HeaderBootstrap: serving a readiness event sets the count of empty waits
\* back to 0, and the relay ends by timeout only at the TIMEOUT-th consecutive
\* empty wait, with nothing ready.  SOCKS5: the forwarding timer expires only
\* if no data was relayed since its wait began, every relayed chunk starting
\* the 300 s anew.
C26_TimeoutOnlyWhenIdle ==
    /\ [][HBEventsServed => count' = 0]_vars
    /\ [][HBTimedOut => (count + 1 >= TIMEOUT /\ edge = {})]_vars
    /\ [][S5ForwardingExpires => ~session.timer_.traffic]_vars

\* C27: with a passphrase configured, a request is authorized only if it
\* presents that passphrase or names, in an X-Real-Host header, a target
\* prefixed by the bind address; a request without a (terminated) X-Real-Host
\* and without the passphrase is rejected.
C27_PassphraseOrExplicitTarget ==
    (Decided /\ PASS # "" /\ ~Denied) =>
        \/ PassMatches
        \/ RealHost # "" /\ StartsWith(RealHost, IP)

\* HeaderBootstrap: this step is the initial recv that makes handle() return
\* without a reply (line 188)
InitialRecvGivesUp == prog = "hb" /\ hbPc = "handle" /\ exitWhy' = "recv"

\* C28: the initial read does not lose a client whose request is on its way.
\* handle() returns from its initial recv without a reply only if the client
\* has closed or reset the connection, so a client that stays connected and
\* sends its header block is never left without a reply because the worker
\* read before the bytes arrived.
C28_InitialReadWaits ==
    /\ [][InitialRecvGivesUp => cliPeer \in {"fin", "rst"}]_vars
    /\ []((prog = "hb" /\ reqSent /\ exitWhy = "recv") => cliPeer # "open")

====
